---- MODULE Spec2Model ----
(***************************************************************************)
(* Aircraft climb performance calculator (aircraft_performance.py).        *)
(*                                                                         *)
(* The calculator is a stateless object: its fields are the fixed axes and *)
(* tables, and every method is a pure function of its arguments.  The      *)
(* model follows one caller: from "idle" it calls a method (op, args),     *)
(* the method produces result (a returned value or a raised ValueError),   *)
(* and the caller drops the result and is idle again.  roc_data is the     *)
(* object's ROC table, the field the guards on a non-positive ROC are      *)
(* about; no method assigns it.                                            *)
(*                                                                         *)
(* Python floats are modelled as exact rationals [n |-> numerator,         *)
(* d |-> denominator], kept in lowest terms with d > 0; float('inf') is    *)
(* the pair n = 1, d = 0.  round(x, k) is round-half-to-even on the exact  *)
(* value.  Run on the arguments used here, the Python methods return the   *)
(* model's values except where a round() meets an exact decimal tie (such  *)
(* as 702.95 to one decimal): there the double nearest the exact value     *)
(* lies on one side of the tie and decides the last digit.                 *)
(***************************************************************************)
EXTENDS Integers, Sequences, FiniteSets, TLC

VARIABLES op, args, result, roc_data

vars == <<op, args, result, roc_data>>

(***************************************************************************)
(* Exact rational arithmetic standing for Python's float operators.        *)
(***************************************************************************)
Abs(i) == IF i < 0 THEN -i ELSE i

RECURSIVE GCD(_, _)
GCD(a, b) == IF b = 0 THEN a ELSE GCD(b, a % b)

\* The fraction n/d (d # 0) in lowest terms with a positive denominator.
Q(n, d) ==
    LET s == IF d < 0 THEN -1 ELSE 1
        g == GCD(Abs(n), Abs(d))
    IN  [n |-> s * (n \div g), d |-> s * (d \div g)]

\* An int literal or int argument used in float arithmetic.
R(i) == [n |-> i, d |-> 1]

RAdd(a, b) ==
    LET g == GCD(a.d, b.d)
    IN  Q(a.n * (b.d \div g) + b.n * (a.d \div g), (a.d \div g) * b.d)

RNeg(a) == [n |-> -a.n, d |-> a.d]

RSub(a, b) == RAdd(a, RNeg(b))

RMul(a, b) ==
    LET g1 == GCD(Abs(a.n), b.d)
        g2 == GCD(Abs(b.n), a.d)
    IN  [n |-> (a.n \div g1) * (b.n \div g2), d |-> (a.d \div g2) * (b.d \div g1)]

\* a / b for b # 0 (every division of the source is guarded).
RDiv(a, b) ==
    RMul(a, IF b.n < 0 THEN [n |-> -b.d, d |-> -b.n] ELSE [n |-> b.d, d |-> b.n])

RLe(a, b) == a.n * b.d <= b.n * a.d

RLt(a, b) == a.n * b.d < b.n * a.d

RMaxOf(S) == CHOOSE m \in S : \A e \in S : RLe(e, m)

RMinOf(S) == CHOOSE m \in S : \A e \in S : RLe(m, e)

Elems(s) == {s[i] : i \in 1..Len(s)}

RECURSIVE Pow10(_)
Pow10(k) == IF k = 0 THEN 1 ELSE 10 * Pow10(k - 1)

\* Python's round(x, ndigits): to the nearest multiple of 10^-ndigits, a tie
\* going to the even one; round(inf, k) is inf.
Round(x, ndigits) ==
    IF x.d = 0 THEN x
    ELSE LET s  == RMul(x, R(Pow10(ndigits)))
             fl == s.n \div s.d
             rm == s.n % s.d
             up == \/ 2 * rm > s.d
                   \/ 2 * rm = s.d /\ fl % 2 # 0
         IN  Q(IF up THEN fl + 1 ELSE fl, Pow10(ndigits))

(***************************************************************************)
(* Performance data tables.                                                *)
(***************************************************************************)
ALTITUDES == <<0, 5000, 10000, 15000>>

WEIGHTS == <<1700, 2000, 2300>>

IAS_DATA ==
    (<<0, 1700>> :> R(75))     @@ (<<0, 2000>> :> R(77))     @@ (<<0, 2300>> :> R(80))     @@
    (<<5000, 1700>> :> R(73))  @@ (<<5000, 2000>> :> R(76))  @@ (<<5000, 2300>> :> R(78))  @@
    (<<10000, 1700>> :> R(71)) @@ (<<10000, 2000>> :> R(74)) @@ (<<10000, 2300>> :> R(77)) @@
    (<<15000, 1700>> :> R(70)) @@ (<<15000, 2000>> :> R(73)) @@ (<<15000, 2300>> :> R(76))

ROC_DATA ==
    (<<0, 1700>> :> R(1085))    @@ (<<0, 2000>> :> R(840))     @@ (<<0, 2300>> :> R(645))     @@
    (<<5000, 1700>> :> R(825))  @@ (<<5000, 2000>> :> R(610))  @@ (<<5000, 2300>> :> R(435))  @@
    (<<10000, 1700>> :> R(570)) @@ (<<10000, 2000>> :> R(380)) @@ (<<10000, 2300>> :> R(230)) @@
    (<<15000, 1700>> :> R(315)) @@ (<<15000, 2000>> :> R(155)) @@ (<<15000, 2300>> :> R(22))

FUEL_DATA ==
    (<<0, 1700>> :> Q(10, 10))     @@ (<<0, 2000>> :> Q(10, 10))     @@ (<<0, 2300>> :> Q(10, 10))      @@
    (<<5000, 1700>> :> Q(19, 10))  @@ (<<5000, 2000>> :> Q(22, 10))  @@ (<<5000, 2300>> :> Q(26, 10))   @@
    (<<10000, 1700>> :> Q(29, 10)) @@ (<<10000, 2000>> :> Q(36, 10)) @@ (<<10000, 2300>> :> Q(48, 10))  @@
    (<<15000, 1700>> :> Q(44, 10)) @@ (<<15000, 2000>> :> Q(63, 10)) @@ (<<15000, 2300>> :> Q(115, 10))

(***************************************************************************)
(* What a call produces: a returned value or a raised ValueError.          *)
(***************************************************************************)
Return(v) == [kind |-> "return", value |-> v]

RaiseValueError == [kind |-> "ValueError"]

Raised(r) == r.kind = "ValueError"

\* Python's None, and a returned dataclass instance (truthy).
None == [present |-> FALSE]

(***************************************************************************)
(* AircraftPerformance._bilinear_interpolation                             *)
(***************************************************************************)
\* Faulty variant of InBounds: the upper bounds taken as exclusive.
InBoundsExclusive(x, y, grid_x, grid_y) ==
    /\ RLe(R(grid_x[1]), x) /\ RLt(x, R(grid_x[Len(grid_x)]))
    /\ RLe(R(grid_y[1]), y) /\ RLt(y, R(grid_y[Len(grid_y)]))

\* grid_x[0] <= x <= grid_x[-1] and grid_y[0] <= y <= grid_y[-1]
InBounds(x, y, grid_x, grid_y) ==
    /\ RLe(R(grid_x[1]), x) /\ RLe(x, R(grid_x[Len(grid_x)]))
    /\ RLe(R(grid_y[1]), y) /\ RLe(y, R(grid_y[Len(grid_y)]))

\* max([g for g in grid if g <= v])
BracketBelow(v, grid) == RMaxOf({R(g) : g \in {e \in Elems(grid) : RLe(R(e), v)}}).n

\* min([g for g in grid if g >= v])
BracketAbove(v, grid) == RMinOf({R(g) : g \in {e \in Elems(grid) : RLe(v, R(e))}}).n

\* 0 if v1 == v0 else (v - v0) / (v1 - v0)
InterpolationWeight(v, v0, v1) ==
    IF v1 = v0 THEN R(0) ELSE RDiv(RSub(v, R(v0)), R(v1 - v0))

\* Faulty variant of Blend: the corners v10 and v01 exchanged.
BlendSwappedCorners(tx, ty, v00, v10, v01, v11) ==
    RAdd(RAdd(RAdd(RMul(RMul(RSub(R(1), tx), RSub(R(1), ty)), v00),
                   RMul(RMul(tx, RSub(R(1), ty)), v01)),
              RMul(RMul(RSub(R(1), tx), ty), v10)),
         RMul(RMul(tx, ty), v11))

\* Faulty variant of Blend: the factor (1 - ty) of the v10 term dropped.
BlendMissingFactor(tx, ty, v00, v10, v01, v11) ==
    RAdd(RAdd(RAdd(RMul(RMul(RSub(R(1), tx), RSub(R(1), ty)), v00),
                   RMul(tx, v10)),
              RMul(RMul(RSub(R(1), tx), ty), v01)),
         RMul(RMul(tx, ty), v11))

\* (1 - tx) * (1 - ty) * v00 + tx * (1 - ty) * v10 + (1 - tx) * ty * v01 + tx * ty * v11
Blend(tx, ty, v00, v10, v01, v11) ==
    RAdd(RAdd(RAdd(RMul(RMul(RSub(R(1), tx), RSub(R(1), ty)), v00),
                   RMul(RMul(tx, RSub(R(1), ty)), v10)),
              RMul(RMul(RSub(R(1), tx), ty), v01)),
         RMul(RMul(tx, ty), v11))

BilinearInterpolation(x, y, grid_x, grid_y, values) ==
    IF ~InBounds(x, y, grid_x, grid_y)
    THEN RaiseValueError
    ELSE LET x0 == BracketBelow(x, grid_x)
             x1 == BracketAbove(x, grid_x)
             y0 == BracketBelow(y, grid_y)
             y1 == BracketAbove(y, grid_y)
         IN  IF x0 = x1 /\ y0 = y1
             THEN Return(values[<<x0, y0>>])
             ELSE LET tx  == InterpolationWeight(x, x0, x1)
                      ty  == InterpolationWeight(y, y0, y1)
                      v00 == values[<<x0, y0>>]
                      v10 == values[<<x1, y0>>]
                      v01 == values[<<x0, y1>>]
                      v11 == values[<<x1, y1>>]
                  IN  Return(Blend(tx, ty, v00, v10, v01, v11))

(***************************************************************************)
(* AircraftPerformance.get_performance_standard                            *)
(***************************************************************************)
\* return round(ias, 1), round(roc, 1), round(fuel, 2), given what the three
\* interpolations produced: the first ValueError among them leaves the method.
RoundedTriple(ias, roc, fuel) ==
    IF Raised(ias) THEN ias
    ELSE IF Raised(roc) THEN roc
    ELSE IF Raised(fuel) THEN fuel
    ELSE Return([ias  |-> Round(ias.value, 1),
                 roc  |-> Round(roc.value, 1),
                 fuel |-> Round(fuel.value, 2)])

\* Faulty variant of GetPerformanceStandard: the ROC looked up in the IAS table.
GetPerformanceStandardWrongTable(altitude_ft, weight_lbs) ==
    RoundedTriple(
        BilinearInterpolation(altitude_ft, weight_lbs, ALTITUDES, WEIGHTS, IAS_DATA),
        BilinearInterpolation(altitude_ft, weight_lbs, ALTITUDES, WEIGHTS, IAS_DATA),
        BilinearInterpolation(altitude_ft, weight_lbs, ALTITUDES, WEIGHTS, FUEL_DATA))

GetPerformanceStandard(altitude_ft, weight_lbs) ==
    RoundedTriple(
        BilinearInterpolation(altitude_ft, weight_lbs, ALTITUDES, WEIGHTS, IAS_DATA),
        BilinearInterpolation(altitude_ft, weight_lbs, ALTITUDES, WEIGHTS, roc_data),
        BilinearInterpolation(altitude_ft, weight_lbs, ALTITUDES, WEIGHTS, FUEL_DATA))

(***************************************************************************)
(* AircraftPerformance.calculate_density_altitude                          *)
(***************************************************************************)
\* Faulty variant of CalculateDensityAltitude: a lapse rate of 3 degC per 1000 ft.
CalculateDensityAltitudeLapse3(pressure_altitude_ft, temperature_c) ==
    LET isa_temp_c == RSub(R(15), RDiv(RMul(R(3), pressure_altitude_ft), R(1000)))
    IN  RAdd(pressure_altitude_ft, RMul(R(120), RSub(temperature_c, isa_temp_c)))

\* Faulty variant of CalculateDensityAltitude: the correction subtracted.
CalculateDensityAltitudeSubtracted(pressure_altitude_ft, temperature_c) ==
    LET isa_temp_c == RSub(R(15), RDiv(RMul(R(2), pressure_altitude_ft), R(1000)))
    IN  RSub(pressure_altitude_ft, RMul(R(120), RSub(temperature_c, isa_temp_c)))

\* Faulty variant of CalculateDensityAltitude: 100 ft per degree.
CalculateDensityAltitude100(pressure_altitude_ft, temperature_c) ==
    LET isa_temp_c == RSub(R(15), RDiv(RMul(R(2), pressure_altitude_ft), R(1000)))
    IN  RAdd(pressure_altitude_ft, RMul(R(100), RSub(temperature_c, isa_temp_c)))

CalculateDensityAltitude(pressure_altitude_ft, temperature_c) ==
    LET isa_temp_c == RSub(R(15), RDiv(RMul(R(2), pressure_altitude_ft), R(1000)))
    IN  RAdd(pressure_altitude_ft, RMul(R(120), RSub(temperature_c, isa_temp_c)))

(***************************************************************************)
(* AircraftPerformance.get_performance_with_temperature                    *)
(***************************************************************************)
\* Faulty variant of PerformanceFactor: the quotient taken the other way round.
PerformanceFactorInverted(roc, std_roc) ==
    IF RLt(R(0), std_roc) /\ roc # R(0) THEN RDiv(std_roc, roc) ELSE R(0)

\* Faulty variant of PerformanceFactor: a non-positive baseline gives 1.
PerformanceFactorDefaultOne(roc, std_roc) ==
    IF RLt(R(0), std_roc) THEN RDiv(roc, std_roc) ELSE R(1)

\* performance_factor = roc / std_roc if std_roc > 0 else 0
PerformanceFactor(roc, std_roc) ==
    IF RLt(R(0), std_roc) THEN RDiv(roc, std_roc) ELSE R(0)

\* The body of the try block, given what the lookup at the density altitude
\* (corrected) and the lookup at the pressure altitude (std) produced: a
\* ValueError of either leaves the block.
TryPerformanceData(pressure_altitude_ft, temperature_c, density_alt, isa_temp, isa_deviation, corrected, std) ==
    IF Raised(corrected) THEN corrected
    ELSE IF Raised(std) THEN std
    ELSE LET roc     == corrected.value.roc
             std_roc == std.value.roc
             performance_factor == PerformanceFactor(roc, std_roc)
         IN  Return([present              |-> TRUE,
                     ias_mph              |-> corrected.value.ias,
                     roc_fpm              |-> roc,
                     fuel_gal             |-> corrected.value.fuel,
                     pressure_altitude_ft |-> pressure_altitude_ft,
                     density_altitude_ft  |-> Round(density_alt, 0),
                     temperature_c        |-> temperature_c,
                     isa_temp_c           |-> Round(isa_temp, 1),
                     isa_deviation_c      |-> Round(isa_deviation, 1),
                     performance_factor   |-> Round(performance_factor, 3),
                     roc_loss_fpm         |-> Round(RSub(std_roc, roc), 1)])

\* Faulty variant of CatchValueError: no except clause.
PropagateValueError(r) == r

\* except ValueError: return None
CatchValueError(r) == IF Raised(r) THEN Return(None) ELSE r

\* Faulty variant of GetPerformanceWithTemperature: the upper bound of the density
\* altitude taken as exclusive.
GetPerformanceWithTemperatureExclusive(pressure_altitude_ft, weight_lbs, temperature_c) ==
    LET density_alt   == CalculateDensityAltitude(pressure_altitude_ft, temperature_c)
        isa_temp      == RSub(R(15), RDiv(RMul(R(2), pressure_altitude_ft), R(1000)))
        isa_deviation == RSub(temperature_c, isa_temp)
        min_alt       == RMinOf({R(a) : a \in Elems(ALTITUDES)})
        max_alt       == RMaxOf({R(a) : a \in Elems(ALTITUDES)})
        min_weight    == RMinOf({R(w) : w \in Elems(WEIGHTS)})
        max_weight    == RMaxOf({R(w) : w \in Elems(WEIGHTS)})
    IN  IF ~(RLe(min_alt, density_alt) /\ RLt(density_alt, max_alt))
        THEN Return(None)
        ELSE IF ~(RLe(min_weight, weight_lbs) /\ RLe(weight_lbs, max_weight))
        THEN Return(None)
        ELSE CatchValueError(
                 TryPerformanceData(pressure_altitude_ft, temperature_c,
                                    density_alt, isa_temp, isa_deviation,
                                    GetPerformanceStandard(density_alt, weight_lbs),
                                    GetPerformanceStandard(pressure_altitude_ft, weight_lbs)))

GetPerformanceWithTemperature(pressure_altitude_ft, weight_lbs, temperature_c) ==
    LET density_alt   == CalculateDensityAltitude(pressure_altitude_ft, temperature_c)
        isa_temp      == RSub(R(15), RDiv(RMul(R(2), pressure_altitude_ft), R(1000)))
        isa_deviation == RSub(temperature_c, isa_temp)
        min_alt       == RMinOf({R(a) : a \in Elems(ALTITUDES)})
        max_alt       == RMaxOf({R(a) : a \in Elems(ALTITUDES)})
        min_weight    == RMinOf({R(w) : w \in Elems(WEIGHTS)})
        max_weight    == RMaxOf({R(w) : w \in Elems(WEIGHTS)})
    IN  IF ~(RLe(min_alt, density_alt) /\ RLe(density_alt, max_alt))
        THEN Return(None)
        ELSE IF ~(RLe(min_weight, weight_lbs) /\ RLe(weight_lbs, max_weight))
        THEN Return(None)
        ELSE CatchValueError(
                 TryPerformanceData(pressure_altitude_ft, temperature_c,
                                    density_alt, isa_temp, isa_deviation,
                                    GetPerformanceStandard(density_alt, weight_lbs),
                                    GetPerformanceStandard(pressure_altitude_ft, weight_lbs)))

(***************************************************************************)
(* AircraftPerformance.get_data_bounds                                     *)
(***************************************************************************)
GetDataBounds ==
    [altitude_range_ft |-> <<RMinOf({R(a) : a \in Elems(ALTITUDES)}),
                             RMaxOf({R(a) : a \in Elems(ALTITUDES)})>>,
     weight_range_lbs  |-> <<RMinOf({R(w) : w \in Elems(WEIGHTS)}),
                             RMaxOf({R(w) : w \in Elems(WEIGHTS)})>>]

(***************************************************************************)
(* AircraftPerformance.get_climb_segment_performance                       *)
(***************************************************************************)
Infinity == [n |-> 1, d |-> 0]

\* Faulty variant of NotAClimb: start_altitude_ft > end_altitude_ft.
NotAClimbStrict(start_altitude_ft, end_altitude_ft) == RLt(end_altitude_ft, start_altitude_ft)

\* start_altitude_ft >= end_altitude_ft
NotAClimb(start_altitude_ft, end_altitude_ft) == RLe(end_altitude_ft, start_altitude_ft)

\* Faulty variant of EndTemperature: a lapse rate of 3 degC per 1000 ft.
EndTemperatureLapse3(start_altitude_ft, end_altitude_ft, start_temperature_c) ==
    LET altitude_diff_1000ft == RDiv(RSub(end_altitude_ft, start_altitude_ft), R(1000))
    IN  RSub(start_temperature_c, RMul(R(3), altitude_diff_1000ft))

\* The temperature at the end altitude, by the standard lapse rate.
EndTemperature(start_altitude_ft, end_altitude_ft, start_temperature_c) ==
    LET altitude_diff_1000ft == RDiv(RSub(end_altitude_ft, start_altitude_ft), R(1000))
    IN  RSub(start_temperature_c, RMul(R(2), altitude_diff_1000ft))

\* Faulty variant of SegmentFuel: the difference taken the other way round.
SegmentFuelReversed(start_perf, end_perf) == RSub(start_perf.fuel_gal, end_perf.fuel_gal)

\* Fuel calculation: difference between fuel-to-altitude values.
SegmentFuel(start_perf, end_perf) == RSub(end_perf.fuel_gal, start_perf.fuel_gal)

\* Faulty variant of ClimbTime: only a zero average ROC guarded against.
ClimbTimeZeroGuard(altitude_gain, avg_roc) ==
    IF avg_roc # R(0) THEN RDiv(altitude_gain, avg_roc) ELSE Infinity

\* Faulty variant of ClimbTime: the average ROC rounded before the division.
ClimbTimeRoundedRoc(altitude_gain, avg_roc) ==
    IF RLt(R(0), Round(avg_roc, 1)) THEN RDiv(altitude_gain, Round(avg_roc, 1)) ELSE Infinity

\* Faulty variant of ClimbTime: the comparison the wrong way round.
ClimbTimeGuardInverted(altitude_gain, avg_roc) ==
    IF RLt(avg_roc, R(0)) THEN RDiv(altitude_gain, avg_roc) ELSE Infinity

\* Time calculation using average ROC: altitude_gain / avg_roc if avg_roc > 0,
\* else float('inf').
ClimbTime(altitude_gain, avg_roc) ==
    IF RLt(R(0), avg_roc) THEN RDiv(altitude_gain, avg_roc) ELSE Infinity

\* The method from its first lookup on, given the two samples (the end sample is
\* only asked for when the start sample exists).
SegmentOf(start_altitude_ft, end_altitude_ft, start_temperature_c, start_perf, end_perf) ==
    IF Raised(start_perf) THEN start_perf
    ELSE IF ~start_perf.value.present THEN Return(None)
    ELSE IF Raised(end_perf) THEN end_perf
    ELSE IF ~end_perf.value.present THEN Return(None)
    ELSE LET altitude_gain  == RSub(end_altitude_ft, start_altitude_ft)
             avg_roc        == RDiv(RAdd(start_perf.value.roc_fpm,
                                         end_perf.value.roc_fpm), R(2))
             segment_fuel   == SegmentFuel(start_perf.value, end_perf.value)
             climb_time_min == ClimbTime(altitude_gain, avg_roc)
         IN  Return([present              |-> TRUE,
                     start_altitude_ft    |-> start_altitude_ft,
                     end_altitude_ft      |-> end_altitude_ft,
                     altitude_gain_ft     |-> altitude_gain,
                     avg_roc_fpm          |-> Round(avg_roc, 1),
                     segment_fuel_gal     |-> Round(segment_fuel, 2),
                     climb_time_min       |-> Round(climb_time_min, 1),
                     start_ias_mph        |-> start_perf.value.ias_mph,
                     end_ias_mph          |-> end_perf.value.ias_mph,
                     start_density_alt_ft |-> start_perf.value.density_altitude_ft,
                     end_density_alt_ft   |-> end_perf.value.density_altitude_ft,
                     temperature_c        |-> start_temperature_c])

GetClimbSegmentPerformance(start_altitude_ft, end_altitude_ft, weight_lbs, start_temperature_c) ==
    IF NotAClimb(start_altitude_ft, end_altitude_ft)
    THEN Return(None)
    ELSE SegmentOf(start_altitude_ft, end_altitude_ft, start_temperature_c,
                   GetPerformanceWithTemperature(start_altitude_ft, weight_lbs,
                                                 start_temperature_c),
                   GetPerformanceWithTemperature(end_altitude_ft, weight_lbs,
                       EndTemperature(start_altitude_ft, end_altitude_ft, start_temperature_c)))

(***************************************************************************)
(* Arguments the methods are called with: altitudes below, on, between and *)
(* above the altitude axis (1 ft gives density altitudes that are not      *)
(* whole feet, 1/4 ft a climb of less than a foot), weights likewise,      *)
(* temperatures in 5 degC steps from -70 plus two within a tenth of a      *)
(* degree of an ISA temperature.                                           *)
(***************************************************************************)
MaxAltitudeSteps == 6

MaxWeightSteps == 4

MaxTemperatureSteps == 22

AltitudeInputs == {-1000, 1, 20000} \cup {2500 * i : i \in 0..MaxAltitudeSteps}

AltitudeArguments == {R(a) : a \in AltitudeInputs} \cup {Q(1, 4)}

WeightInputs == {1500, 2500} \cup {1700 + 150 * i : i \in 0..MaxWeightSteps}

TemperatureInputs ==
    {Q(301, 20), Q(199, 20)} \cup {R(5 * i - 70) : i \in 0..MaxTemperatureSteps}

Tables == [ias |-> IAS_DATA, roc |-> ROC_DATA, fuel |-> FUEL_DATA]

\* ROC tables for self.roc_data: the built-in one, and the built-in one with every
\* entry lowered by RocShift ft/min, which has positive, zero-crossing and negative
\* rates of climb (35 ft/min at 5000 ft, -170 at 10000 ft for 2300 lbs).
RocShift == 400

RocTables == {[p \in DOMAIN ROC_DATA |-> RSub(ROC_DATA[p], R(k))] : k \in {0, RocShift}}

(***************************************************************************)
(* The state machine: one action per method.                               *)
(***************************************************************************)
Init ==
    /\ op = "idle"
    /\ args = << >>
    /\ result = Return(None)
    /\ roc_data = ROC_DATA

CallBilinearInterpolation ==
    /\ op = "idle"
    /\ \E a \in AltitudeArguments, w \in WeightInputs, t \in DOMAIN Tables :
          /\ op' = "_bilinear_interpolation"
          /\ args' = [x |-> a, y |-> R(w), values |-> t]
          /\ result' = BilinearInterpolation(a, R(w), ALTITUDES, WEIGHTS, Tables[t])
    /\ UNCHANGED roc_data

CallGetPerformanceStandard ==
    /\ op = "idle"
    /\ \E a \in AltitudeArguments, w \in WeightInputs :
          /\ op' = "get_performance_standard"
          /\ args' = [altitude_ft |-> a, weight_lbs |-> R(w)]
          /\ result' = GetPerformanceStandard(a, R(w))
    /\ UNCHANGED roc_data

CallCalculateDensityAltitude ==
    /\ op = "idle"
    /\ \E a \in AltitudeArguments, t \in TemperatureInputs :
          /\ op' = "calculate_density_altitude"
          /\ args' = [pressure_altitude_ft |-> a, temperature_c |-> t]
          /\ result' = Return(CalculateDensityAltitude(a, t))
    /\ UNCHANGED roc_data

CallGetPerformanceWithTemperature ==
    /\ op = "idle"
    /\ \E a \in AltitudeArguments, w \in WeightInputs, t \in TemperatureInputs :
          /\ op' = "get_performance_with_temperature"
          /\ args' = [pressure_altitude_ft |-> a, weight_lbs |-> R(w), temperature_c |-> t]
          /\ result' = GetPerformanceWithTemperature(a, R(w), t)
    /\ UNCHANGED roc_data

CallGetDataBounds ==
    /\ op = "idle"
    /\ op' = "get_data_bounds"
    /\ args' = << >>
    /\ result' = Return(GetDataBounds)
    /\ UNCHANGED roc_data

CallGetClimbSegmentPerformance ==
    /\ op = "idle"
    /\ \E a \in AltitudeArguments, b \in AltitudeArguments, w \in WeightInputs,
          t \in TemperatureInputs :
          /\ op' = "get_climb_segment_performance"
          /\ args' = [start_altitude_ft |-> a, end_altitude_ft |-> b,
                      weight_lbs |-> R(w), start_temperature_c |-> t]
          /\ result' = GetClimbSegmentPerformance(a, b, R(w), t)
    /\ UNCHANGED roc_data

\* The caller is done with the result; the calculator itself holds no state
\* that a call could have changed.
Drop ==
    /\ op # "idle"
    /\ op' = "idle"
    /\ args' = << >>
    /\ result' = Return(None)
    /\ UNCHANGED roc_data

Next ==
    \/ CallBilinearInterpolation
    \/ CallGetPerformanceStandard
    \/ CallCalculateDensityAltitude
    \/ CallGetPerformanceWithTemperature
    \/ CallGetDataBounds
    \/ CallGetClimbSegmentPerformance
    \/ Drop

Spec == Init /\ [][Next]_vars

\* A calculator whose ROC table is one of RocTables: the methods read the table
\* from self.roc_data, so it is an input of each of them like the arguments.
InitTables ==
    /\ op = "idle"
    /\ args = << >>
    /\ result = Return(None)
    /\ roc_data \in RocTables

SpecTables == InitTables /\ [][Next]_vars

(***************************************************************************)
(* Properties.  Each is stated over the state left by the call it is       *)
(* about: the arguments in args, what the call produced in result.         *)
(***************************************************************************)
Standard == op = "get_performance_standard"

Interpolated == op = "_bilinear_interpolation"

\* a <= v <= b for ints a, b and a rational v.
Within(v, a, b) == RLe(R(a), v) /\ RLe(v, R(b))

OnAxis(v, axis) == v.d = 1 /\ v.n \in axis

C2_ExactGridReproduction ==
    /\ (Standard /\ OnAxis(args.altitude_ft, {0, 5000, 10000, 15000})
                 /\ OnAxis(args.weight_lbs, {1700, 2000, 2300})) =>
           LET p == <<args.altitude_ft.n, args.weight_lbs.n>>
           IN  /\ ~Raised(result)
               /\ result.value.ias = IAS_DATA[p]
               /\ result.value.roc = ROC_DATA[p]
               /\ result.value.fuel = FUEL_DATA[p]
    /\ (Interpolated /\ OnAxis(args.x, {0, 5000, 10000, 15000})
                     /\ OnAxis(args.y, {1700, 2000, 2300})) =>
           /\ ~Raised(result)
           /\ result.value = Tables[args.values][<<args.x.n, args.y.n>>]
    /\ (Standard /\ args.altitude_ft = R(0) /\ args.weight_lbs = R(1700)) =>
           /\ ~Raised(result)
           /\ result.value = [ias |-> R(75), roc |-> R(1085), fuel |-> R(1)]

\* An interior grid point was looked up.
C2_Witness ==
    /\ Standard
    /\ args.altitude_ft = R(10000) /\ args.weight_lbs = R(2000)
    /\ ~Raised(result)
    /\ result.value.roc = R(380)

\* The bracketing axis values and offsets as C3 states them.
LargestAtMost(v, axis) ==
    CHOOSE g \in axis : RLe(R(g), v) /\ \A h \in axis : RLe(R(h), v) => h <= g

SmallestAtLeast(v, axis) ==
    CHOOSE g \in axis : RLe(v, R(g)) /\ \A h \in axis : RLe(v, R(h)) => g <= h

Offset(v, v0, v1) == IF v1 = v0 THEN R(0) ELSE Q(v.n - v0 * v.d, v.d * (v1 - v0))

FourCornerBlend(x, y, table) ==
    LET x0 == LargestAtMost(x, {0, 5000, 10000, 15000})
        x1 == SmallestAtLeast(x, {0, 5000, 10000, 15000})
        y0 == LargestAtMost(y, {1700, 2000, 2300})
        y1 == SmallestAtLeast(y, {1700, 2000, 2300})
        tx == Offset(x, x0, x1)
        ty == Offset(y, y0, y1)
        ux == RSub(R(1), tx)
        uy == RSub(R(1), ty)
    IN  RAdd(RAdd(RMul(RMul(ux, uy), table[<<x0, y0>>]),
                  RMul(RMul(tx, uy), table[<<x1, y0>>])),
             RAdd(RMul(RMul(ux, ty), table[<<x0, y1>>]),
                  RMul(RMul(tx, ty), table[<<x1, y1>>])))

\* C3: for every in-bounds query the interpolator's unrounded result is the
\* four-corner bilinear blend over the tightest bracketing grid values; the IAS
\* table at (2500, 1850) interpolates to 75.25.
C3_BilinearBlend ==
    /\ (Interpolated /\ Within(args.x, 0, 15000) /\ Within(args.y, 1700, 2300)) =>
           /\ ~Raised(result)
           /\ result.value = FourCornerBlend(args.x, args.y, Tables[args.values])
    /\ (Interpolated /\ args.x = R(2500) /\ args.y = R(1850) /\ args.values = "ias") =>
           /\ ~Raised(result)
           /\ result.value = Q(7525, 100)

\* The ROC table was interpolated strictly between four corners.
C3_Witness ==
    /\ Interpolated
    /\ args.x = R(7500) /\ args.y = R(2150) /\ args.values = "roc"
    /\ ~Raised(result)
    /\ result.value = Q(1655, 4)

CornerValues(x, y, table) ==
    {table[<<gx, gy>>] :
        gx \in {LargestAtMost(x, {0, 5000, 10000, 15000}),
                SmallestAtLeast(x, {0, 5000, 10000, 15000})},
        gy \in {LargestAtMost(y, {1700, 2000, 2300}),
                SmallestAtLeast(y, {1700, 2000, 2300})}}

Between(v, S) == (\E lo \in S : RLe(lo, v)) /\ (\E hi \in S : RLe(v, hi))

\* C4: for every query point inside the grid, each metric get_performance_standard
\* returns lies between the minimum and the maximum of the table values at the
\* four bracketing corners of the point.
C4_BoundedByCorners ==
    (Standard /\ Within(args.altitude_ft, 0, 15000) /\ Within(args.weight_lbs, 1700, 2300)) =>
        /\ ~Raised(result)
        /\ Between(result.value.ias, CornerValues(args.altitude_ft, args.weight_lbs, IAS_DATA))
        /\ Between(result.value.roc, CornerValues(args.altitude_ft, args.weight_lbs, ROC_DATA))
        /\ Between(result.value.fuel, CornerValues(args.altitude_ft, args.weight_lbs, FUEL_DATA))

\* A point off both axes was looked up and its fuel lies strictly between corners.
C4_Witness ==
    /\ Standard
    /\ args.altitude_ft = R(12500) /\ args.weight_lbs = R(2150)
    /\ ~Raised(result)
    /\ RLt(Q(36, 10), result.value.fuel) /\ RLt(result.value.fuel, Q(115, 10))

Sampled == op = "get_performance_with_temperature"

Climbed == op = "get_climb_segment_performance"

DensityComputed == op = "calculate_density_altitude"

Present(r) == ~Raised(r) /\ r.value.present

Absent(r) == ~Raised(r) /\ ~r.value.present

\* ISA temperature, 15 - 2 * altitude / 1000, as the properties state it.
IsaTemperature(altitude) == RSub(R(15), Q(2 * altitude.n, 1000 * altitude.d))

\* The end temperature of a segment, t - 2 * (b - a) / 1000.
LapsedTemperature(a, b, t) == RSub(t, RMul(R(2), RMul(RSub(b, a), Q(1, 1000))))

\* C5: get_performance_with_temperature and get_climb_segment_performance never
\* raise; they return None whenever a density altitude is outside [0, 15000] or
\* the weight is outside [1700, 2300], and whenever a pressure altitude is -1000
\* or 20000 or the weight is 1500 or 2500, at every temperature.
C5_AbsentNeverRaised ==
    /\ Sampled =>
          /\ ~Raised(result)
          /\ (\/ ~Within(CalculateDensityAltitude(args.pressure_altitude_ft,
                                                   args.temperature_c), 0, 15000)
              \/ ~Within(args.weight_lbs, 1700, 2300)
              \/ args.pressure_altitude_ft \in {R(-1000), R(20000)}
              \/ args.weight_lbs \in {R(1500), R(2500)}) => Absent(result)
    /\ Climbed =>
          /\ ~Raised(result)
          /\ (\/ ~Within(CalculateDensityAltitude(args.start_altitude_ft,
                                                   args.start_temperature_c), 0, 15000)
              \/ ~Within(CalculateDensityAltitude(args.end_altitude_ft,
                             LapsedTemperature(args.start_altitude_ft, args.end_altitude_ft,
                                               args.start_temperature_c)), 0, 15000)
              \/ ~Within(args.weight_lbs, 1700, 2300)
              \/ args.start_altitude_ft \in {R(-1000), R(20000)}
              \/ args.end_altitude_ft \in {R(-1000), R(20000)}
              \/ args.weight_lbs \in {R(1500), R(2500)}) => Absent(result)

\* A pressure altitude below the grid whose density altitude and weight are inside
\* it: the baseline lookup fails and the sample is None.
C5_Witness ==
    /\ Sampled
    /\ args.pressure_altitude_ft = R(-1000)
    /\ Within(CalculateDensityAltitude(args.pressure_altitude_ft, args.temperature_c), 0, 15000)
    /\ Within(args.weight_lbs, 1700, 2300)
    /\ Absent(result)

\* C6: get_climb_segment_performance(a, b, weight, t) is None whenever a >= b; when
\* a < b it returns a segment if and only if get_performance_with_temperature
\* returns a sample both at (a, weight, t) and at (b, weight, t - 2 * (b - a) / 1000).
C6_SegmentPresence ==
    Climbed =>
        LET a == args.start_altitude_ft
            b == args.end_altitude_ft
            start == GetPerformanceWithTemperature(a, args.weight_lbs, args.start_temperature_c)
            end   == GetPerformanceWithTemperature(b, args.weight_lbs,
                         LapsedTemperature(a, b, args.start_temperature_c))
        IN  /\ RLe(b, a) => Absent(result)
            /\ RLt(a, b) => /\ ~Raised(result)
                            /\ result.value.present <=> (Present(start) /\ Present(end))

\* A climb whose start sample exists and whose end sample does not: no segment.
C6_Witness ==
    /\ Climbed
    /\ RLt(args.start_altitude_ft, args.end_altitude_ft)
    /\ Present(GetPerformanceWithTemperature(args.start_altitude_ft, args.weight_lbs,
                                              args.start_temperature_c))
    /\ Absent(result)

\* C7: at ISA temperature and any in-grid pressure altitude and weight,
\* get_performance_with_temperature returns a sample whose density altitude is
\* within 1 ft of the pressure altitude, whose ISA deviation is 0 and whose
\* performance factor is exactly 1.
C7_IsaInvariance ==
    (/\ Sampled
     /\ args.temperature_c = IsaTemperature(args.pressure_altitude_ft)
     /\ Within(args.pressure_altitude_ft, 0, 15000)
     /\ Within(args.weight_lbs, 1700, 2300)) =>
        /\ Present(result)
        /\ RLe(RSub(result.value.density_altitude_ft, args.pressure_altitude_ft), R(1))
        /\ RLe(RSub(args.pressure_altitude_ft, result.value.density_altitude_ft), R(1))
        /\ result.value.isa_deviation_c = R(0)
        /\ result.value.performance_factor = R(1)

\* A sample taken at 7500 ft and 0 degC, the ISA temperature there.
C7_Witness ==
    /\ Sampled
    /\ args.pressure_altitude_ft = R(7500) /\ args.temperature_c = R(0)
    /\ args.weight_lbs = R(2150)
    /\ Present(result)
    /\ result.value.density_altitude_ft = R(7500)

\* The parts of C8 that do not concern the performance factor: a higher temperature
\* gives a strictly higher density altitude, and of two samples at the same
\* pressure altitude and weight the hotter one has no higher ROC.
TemperatureMonotone ==
    /\ DensityComputed =>
          \A t \in TemperatureInputs :
              RLt(args.temperature_c, t) =>
                  RLt(result.value, CalculateDensityAltitude(args.pressure_altitude_ft, t))
    /\ (Sampled /\ Present(result)) =>
          \A t \in TemperatureInputs :
              RLt(args.temperature_c, t) =>
                  LET hotter == GetPerformanceWithTemperature(args.pressure_altitude_ft,
                                                              args.weight_lbs, t)
                  IN  Present(hotter) => RLe(hotter.value.roc_fpm, result.value.roc_fpm)

\* C8 as claimed: TemperatureMonotone, and every sample above ISA temperature has a
\* performance factor < 1, every sample below ISA temperature one > 1.
C8_StrictPerformanceFactor ==
    /\ TemperatureMonotone
    /\ (Sampled /\ Present(result)) =>
          /\ RLt(IsaTemperature(args.pressure_altitude_ft), args.temperature_c) =>
                 RLt(result.value.performance_factor, R(1))
          /\ RLt(args.temperature_c, IsaTemperature(args.pressure_altitude_ft)) =>
                 RLt(R(1), result.value.performance_factor)

\* C8 amended: TemperatureMonotone, and every sample above ISA temperature has a
\* performance factor <= 1, every sample below ISA temperature one >= 1 (the
\* factor is rounded to 3 decimals, the ROC to 1, so a small deviation leaves 1.000).
C8_PerformanceFactorAmended ==
    /\ TemperatureMonotone
    /\ (Sampled /\ Present(result)) =>
          /\ RLt(IsaTemperature(args.pressure_altitude_ft), args.temperature_c) =>
                 RLe(result.value.performance_factor, R(1))
          /\ RLt(args.temperature_c, IsaTemperature(args.pressure_altitude_ft)) =>
                 RLe(R(1), result.value.performance_factor)

\* A sample 0.05 degC above ISA temperature whose performance factor is 1.000.
C8_Witness ==
    /\ Sampled /\ Present(result)
    /\ RLt(IsaTemperature(args.pressure_altitude_ft), args.temperature_c)
    /\ result.value.performance_factor = R(1)
    /\ RLt(args.pressure_altitude_ft, result.value.density_altitude_ft)

\* C9: calculate_density_altitude always returns, for altitudes and temperatures
\* outside the grid as well, and returns pressure_altitude + 120 * (temperature -
\* (15 - 2 * pressure_altitude / 1000)), i.e. 1.24 * pressure_altitude +
\* 120 * temperature - 1800; (0, 15) -> 0, (0, 25) -> 1200, (0, 5) -> -1200,
\* (5000, 25) -> 7400.
C9_DensityAltitudeFormula ==
    DensityComputed =>
        LET pa == args.pressure_altitude_ft
            t  == args.temperature_c
        IN  /\ ~Raised(result)
            /\ result.value = RSub(RAdd(RMul(Q(124, 100), pa), RMul(R(120), t)), R(1800))
            /\ (pa = R(0) /\ t = R(15)) => result.value = R(0)
            /\ (pa = R(0) /\ t = R(25)) => result.value = R(1200)
            /\ (pa = R(0) /\ t = R(5)) => result.value = R(-1200)
            /\ (pa = R(5000) /\ t = R(25)) => result.value = R(7400)

\* The density altitude of a pressure altitude above the grid was computed.
C9_Witness ==
    /\ DensityComputed
    /\ args.pressure_altitude_ft = R(20000) /\ args.temperature_c = R(-70)
    /\ result.value = R(14600)

FuelAt(altitude, weight) == GetPerformanceStandard(altitude, weight).value.fuel

\* C10 as claimed: for every segment returned, segment_fuel_gal is the fuel at the
\* recorded end density altitude minus the fuel at the recorded start density
\* altitude, each from get_performance_standard.
C10_FuelAtRecordedDensityAltitudes ==
    (Climbed /\ Present(result)) =>
        result.value.segment_fuel_gal =
            RSub(FuelAt(result.value.end_density_alt_ft, args.weight_lbs),
                 FuelAt(result.value.start_density_alt_ft, args.weight_lbs))

\* C10 amended: for every segment returned, segment_fuel_gal is the fuel at the end
\* density altitude minus the fuel at the start density altitude, each from
\* get_performance_standard at the density altitude calculate_density_altitude
\* gives (not rounded to whole feet as the segment records it).
C10_FuelAtDensityAltitudes ==
    (Climbed /\ Present(result)) =>
        LET a == args.start_altitude_ft
            b == args.end_altitude_ft
            t == args.start_temperature_c
        IN  result.value.segment_fuel_gal =
                RSub(FuelAt(CalculateDensityAltitude(b, LapsedTemperature(a, b, t)),
                            args.weight_lbs),
                     FuelAt(CalculateDensityAltitude(a, t), args.weight_lbs))

\* A segment whose density altitudes are not whole feet: 1.24 ft -> 2500.24 ft.
C10_Witness ==
    /\ Climbed /\ Present(result)
    /\ args.start_altitude_ft = R(1) /\ args.end_altitude_ft = R(2500)
    /\ args.weight_lbs = R(1850) /\ args.start_temperature_c = R(15)
    /\ result.value.start_density_alt_ft = R(1)
    /\ result.value.segment_fuel_gal = Q(53, 100)

IsInfinity(v) == v.d = 0 /\ v.n > 0

IsFinite(v) == v.d # 0

\* The two samples a climb from a to b is derived from.
StartSample ==
    GetPerformanceWithTemperature(args.start_altitude_ft, args.weight_lbs,
                                  args.start_temperature_c)

EndSample ==
    GetPerformanceWithTemperature(args.end_altitude_ft, args.weight_lbs,
        LapsedTemperature(args.start_altitude_ft, args.end_altitude_ft,
                          args.start_temperature_c))

\* The average ROC of a segment, (start ROC + end ROC) / 2.
AverageRoc(start, end) == RMul(RAdd(start.value.roc_fpm, end.value.roc_fpm), Q(1, 2))

\* C11: in every segment returned, whatever the ROC table, climb_time_min is
\* positive infinity exactly when the average of the start and end ROC is <= 0 and
\* a finite number otherwise; with the built-in ROC table the same holds of the
\* recorded avg_roc_fpm; and a climb whose two samples exist and whose ROCs average
\* to <= 0 returns a segment with that infinite climb time, it neither raises nor
\* returns None.
C11_UnreachableSentinel ==
    /\ (Climbed /\ Present(result)) =>
          /\ IsInfinity(result.value.climb_time_min) <=>
                 RLe(AverageRoc(StartSample, EndSample), R(0))
          /\ RLt(R(0), AverageRoc(StartSample, EndSample)) =>
                 IsFinite(result.value.climb_time_min)
          /\ roc_data = ROC_DATA =>
                 (IsInfinity(result.value.climb_time_min) <=>
                      RLe(result.value.avg_roc_fpm, R(0)))
    /\ (/\ Climbed /\ RLt(args.start_altitude_ft, args.end_altitude_ft)
         /\ Present(StartSample) /\ Present(EndSample)
         /\ RLe(AverageRoc(StartSample, EndSample), R(0))) =>
            Present(result) /\ IsInfinity(result.value.climb_time_min)

\* A segment between two samples with negative ROC: the climb time is infinite.
C11_Witness ==
    /\ Climbed /\ Present(result)
    /\ RLt(result.value.avg_roc_fpm, R(0))
    /\ IsInfinity(result.value.climb_time_min)

\* "About" a quoted density altitude: within 100 ft of it.
About(v, quoted) == RLe(RSub(v, R(quoted)), R(100)) /\ RLe(RSub(R(quoted), v), R(100))

HotDay == Sampled /\ args = [pressure_altitude_ft |-> R(5000), weight_lbs |-> R(2000),
                             temperature_c |-> R(25)]

ColdDay == Sampled /\ args = [pressure_altitude_ft |-> R(5000), weight_lbs |-> R(2000),
                              temperature_c |-> R(-5)]

\* What C12 says of the two samples apart from the cold-day density altitude: the
\* hot-day sample reports about 7400 ft; the hot-day density altitude is the
\* greater, the hot-day ROC the lower, and hot factor < 1 < cold factor.
HotColdComparison ==
    /\ HotDay =>
          LET cold == GetPerformanceWithTemperature(R(5000), R(2000), R(-5))
          IN  /\ Present(result) /\ Present(cold)
              /\ About(result.value.density_altitude_ft, 7400)
              /\ RLt(cold.value.density_altitude_ft, result.value.density_altitude_ft)
              /\ RLt(result.value.roc_fpm, cold.value.roc_fpm)
              /\ RLt(result.value.performance_factor, R(1))
    /\ ColdDay =>
          LET hot == GetPerformanceWithTemperature(R(5000), R(2000), R(25))
          IN  /\ Present(result) /\ Present(hot)
              /\ RLt(result.value.density_altitude_ft, hot.value.density_altitude_ft)
              /\ RLt(hot.value.roc_fpm, result.value.roc_fpm)
              /\ RLt(R(1), result.value.performance_factor)

\* C12 as claimed: HotColdComparison, and get_performance_with_temperature(5000,
\* 2000, -5) reports a density altitude of about 200 ft.
C12_ColdDayAbout200 ==
    /\ HotColdComparison
    /\ ColdDay => Present(result) /\ About(result.value.density_altitude_ft, 200)

\* C12 amended: HotColdComparison, and get_performance_with_temperature(5000, 2000,
\* -5) reports a density altitude of about 3800 ft (10 degC below the ISA
\* temperature of 5 degC at 5000 ft, 120 ft per degree: 5000 - 1200).
C12_ColdDayAbout3800 ==
    /\ HotColdComparison
    /\ ColdDay => Present(result) /\ About(result.value.density_altitude_ft, 3800)

\* The cold-day sample was taken: 3800 ft, a higher ROC than the baseline.
C12_Witness ==
    /\ ColdDay /\ Present(result)
    /\ result.value.density_altitude_ft = R(3800)
    /\ RLt(R(1), result.value.performance_factor)

RocAt(altitude, weight) == GetPerformanceStandard(altitude, weight).value.roc

\* v is x rounded to k decimals: a multiple of 10^-k at most half a step from x.
RoundedTo(v, x, k) ==
    /\ Pow10(k) % v.d = 0
    /\ RLe(RMul(RSub(v, x), R(2 * Pow10(k))), R(1))
    /\ RLe(RMul(RSub(x, v), R(2 * Pow10(k))), R(1))

\* C13: in every sample returned, with corrected the ROC get_performance_standard
\* gives at (density altitude, weight) and baseline the one it gives at (pressure
\* altitude, weight): performance_factor is corrected / baseline rounded to 3
\* decimals when baseline > 0 and 0 when baseline <= 0; roc_loss_fpm is baseline -
\* corrected rounded to 1 decimal, and is > 0 exactly when corrected < baseline.
C13_FactorAndLoss ==
    (Sampled /\ Present(result)) =>
        LET corrected == RocAt(CalculateDensityAltitude(args.pressure_altitude_ft,
                                                        args.temperature_c),
                               args.weight_lbs)
            baseline  == RocAt(args.pressure_altitude_ft, args.weight_lbs)
        IN  /\ result.value.roc_fpm = corrected
            /\ RLt(R(0), baseline) =>
                   RoundedTo(result.value.performance_factor,
                             RMul(corrected, [n |-> baseline.d, d |-> baseline.n]), 3)
            /\ RLe(baseline, R(0)) => result.value.performance_factor = R(0)
            /\ RoundedTo(result.value.roc_loss_fpm, RSub(baseline, corrected), 1)
            /\ RLt(R(0), result.value.roc_loss_fpm) <=> RLt(corrected, baseline)

\* A sample on a day hotter than ISA whose baseline ROC is negative: factor 0 and a
\* positive ROC loss.
C13_Witness ==
    /\ Sampled /\ Present(result)
    /\ RLt(RocAt(args.pressure_altitude_ft, args.weight_lbs), R(0))
    /\ result.value.performance_factor = R(0)
    /\ RLt(R(0), result.value.roc_loss_fpm)

\* C14 as claimed: with the built-in tables every segment returned has
\* avg_roc_fpm > 0, segment_fuel_gal > 0, a finite climb_time_min > 0 and a start
\* IAS greater than its end IAS.
C14_StrictlyPositive ==
    (Climbed /\ Present(result) /\ roc_data = ROC_DATA) =>
        /\ RLt(R(0), result.value.avg_roc_fpm)
        /\ RLt(R(0), result.value.segment_fuel_gal)
        /\ IsFinite(result.value.climb_time_min)
        /\ RLt(R(0), result.value.climb_time_min)
        /\ RLt(result.value.end_ias_mph, result.value.start_ias_mph)

\* C14 amended: with the built-in tables every segment returned has
\* avg_roc_fpm > 0, segment_fuel_gal >= 0, a finite climb_time_min >= 0 and a start
\* IAS not less than its end IAS; fuel and time are > 0 and the start IAS is
\* greater than the end IAS when the altitude gain is at least 2500 ft.
C14_PositiveOverLongClimbs ==
    (Climbed /\ Present(result) /\ roc_data = ROC_DATA) =>
        /\ RLt(R(0), result.value.avg_roc_fpm)
        /\ RLe(R(0), result.value.segment_fuel_gal)
        /\ IsFinite(result.value.climb_time_min)
        /\ RLe(R(0), result.value.climb_time_min)
        /\ RLe(result.value.end_ias_mph, result.value.start_ias_mph)
        /\ RLe(R(2500), result.value.altitude_gain_ft) =>
               /\ RLt(R(0), result.value.segment_fuel_gal)
               /\ RLt(R(0), result.value.climb_time_min)
               /\ RLt(result.value.end_ias_mph, result.value.start_ias_mph)

\* A climb of one foot: fuel 0.0, time 0.0 and the same IAS at both ends.
C14_Witness ==
    /\ Climbed /\ Present(result) /\ roc_data = ROC_DATA
    /\ result.value.altitude_gain_ft = R(1)
    /\ result.value.segment_fuel_gal = R(0)
    /\ result.value.climb_time_min = R(0)
    /\ result.value.start_ias_mph = result.value.end_ias_mph
    /\ RLt(R(0), result.value.avg_roc_fpm)

DensityAltitudeOfCall ==
    CalculateDensityAltitude(args.pressure_altitude_ft, args.temperature_c)

\* C15 as claimed: get_performance_with_temperature returns a sample whenever the
\* computed density altitude is within [0, 15000] and the weight within
\* [1700, 2300], at every pressure altitude and temperature.
C15_OnlyTwoBoundsChecks ==
    (/\ Sampled
     /\ Within(DensityAltitudeOfCall, 0, 15000)
     /\ Within(args.weight_lbs, 1700, 2300)) => Present(result)

\* C15 amended: get_performance_with_temperature always returns, and returns a
\* sample exactly when the computed density altitude is within [0, 15000], the
\* weight within [1700, 2300] and the pressure altitude within [0, 15000]; a
\* pressure altitude off the altitude axis makes the baseline lookup raise, which
\* the method turns into None.
C15_ThreeConditions ==
    Sampled =>
        /\ ~Raised(result)
        /\ result.value.present <=>
               /\ Within(DensityAltitudeOfCall, 0, 15000)
               /\ Within(args.weight_lbs, 1700, 2300)
               /\ Within(args.pressure_altitude_ft, 0, 15000)

\* A pressure altitude above the grid on a day cold enough for the density
\* altitude to be inside it: no sample.
C15_Witness ==
    /\ Sampled
    /\ args.pressure_altitude_ft = R(20000) /\ args.temperature_c = R(-70)
    /\ DensityAltitudeOfCall = R(14600)
    /\ Within(args.weight_lbs, 1700, 2300)
    /\ Absent(result)

\* altitude_gain / roc for roc > 0.
GainOver(gain, roc) == RMul(gain, [n |-> roc.d, d |-> roc.n])

\* C16 as claimed: in every segment returned with a positive average ROC,
\* climb_time_min is altitude_gain_ft divided by the recorded avg_roc_fpm (the
\* average rounded to 1 decimal), rounded to 1 decimal.
C16_TimeFromRecordedRoc ==
    (Climbed /\ Present(result) /\ RLt(R(0), result.value.avg_roc_fpm)) =>
        RoundedTo(result.value.climb_time_min,
                  GainOver(result.value.altitude_gain_ft, result.value.avg_roc_fpm), 1)

\* C16 amended: in every segment returned with a positive average ROC,
\* climb_time_min is altitude_gain_ft divided by the average of the start and end
\* ROC before that average is rounded, rounded to 1 decimal; avg_roc_fpm is the
\* same average rounded to 1 decimal.
C16_TimeFromUnroundedRoc ==
    (Climbed /\ Present(result) /\ RLt(R(0), AverageRoc(StartSample, EndSample))) =>
        /\ RoundedTo(result.value.climb_time_min,
                      GainOver(result.value.altitude_gain_ft,
                               AverageRoc(StartSample, EndSample)), 1)
        /\ RoundedTo(result.value.avg_roc_fpm, AverageRoc(StartSample, EndSample), 1)
        /\ result.value.altitude_gain_ft = RSub(args.end_altitude_ft, args.start_altitude_ft)

\* A 10000 ft climb at 404.05 ft/min: the segment records 404.0 ft/min and 24.7
\* min, while 10000 / 404.0 is 24.75...
C16_Witness ==
    /\ Climbed /\ Present(result)
    /\ AverageRoc(StartSample, EndSample) = Q(40405, 100)
    /\ result.value.altitude_gain_ft = R(10000)
    /\ result.value.avg_roc_fpm = R(404)
    /\ result.value.climb_time_min = Q(247, 10)

WithinOf(v, x, tolerance) == RLe(RSub(v, x), tolerance) /\ RLe(RSub(x, v), tolerance)

\* What C17 says apart from the order of the recorded density altitudes: the ISA
\* deviation at the end point (end temperature as the method derives it) equals
\* the one at the start point, and the two samples record deviations at most 0.1
\* apart; the density altitudes of the two points differ by altitude_gain_ft, and
\* the recorded ones, rounded to whole feet, by that within 1 ft.
GainInDensityAltitude ==
    (Climbed /\ Present(result)) =>
        LET a == args.start_altitude_ft
            b == args.end_altitude_ft
            t == args.start_temperature_c
            end_t == EndTemperature(a, b, t)
        IN  /\ RSub(end_t, IsaTemperature(b)) = RSub(t, IsaTemperature(a))
            /\ WithinOf(EndSample.value.isa_deviation_c,
                         StartSample.value.isa_deviation_c, Q(1, 10))
            /\ RSub(CalculateDensityAltitude(b, end_t), CalculateDensityAltitude(a, t)) =
                   result.value.altitude_gain_ft
            /\ RLt(CalculateDensityAltitude(a, t), CalculateDensityAltitude(b, end_t))
            /\ WithinOf(RSub(result.value.end_density_alt_ft,
                              result.value.start_density_alt_ft),
                         result.value.altitude_gain_ft, R(1))

\* C17 as claimed: GainInDensityAltitude, and in every segment returned
\* end_density_alt_ft > start_density_alt_ft.
C17_RecordedStrictlyHigher ==
    /\ GainInDensityAltitude
    /\ (Climbed /\ Present(result)) =>
          RLt(result.value.start_density_alt_ft, result.value.end_density_alt_ft)

\* C17 amended: GainInDensityAltitude, and in every segment returned
\* end_density_alt_ft >= start_density_alt_ft, with > when the altitude gain is
\* more than 1 ft (a shorter climb can record the same whole foot twice).
C17_RecordedNotLower ==
    /\ GainInDensityAltitude
    /\ (Climbed /\ Present(result)) =>
          /\ RLe(result.value.start_density_alt_ft, result.value.end_density_alt_ft)
          /\ RLt(R(1), result.value.altitude_gain_ft) =>
                 RLt(result.value.start_density_alt_ft, result.value.end_density_alt_ft)

\* A climb of a quarter of a foot from sea level: both density altitudes are
\* recorded as 0 ft.
C17_Witness ==
    /\ Climbed /\ Present(result)
    /\ result.value.altitude_gain_ft = Q(1, 4)
    /\ result.value.start_density_alt_ft = R(0)
    /\ result.value.end_density_alt_ft = R(0)

====
